---- MODULE Spec2Model ----
(***************************************************************************)
(* Streaming chat client of himira-mcp-frontend: the useChatStream hook    *)
(* (hooks/useChatStream.ts) that reads a server-sent event stream, and the *)
(* Chat screen (pages/Chat) whose callbacks reconcile the transcript.      *)
(*                                                                         *)
(* Granularity.  JavaScript runs one task at a time and drains the promise *)
(* jobs a task queued before the next task starts.  An action is therefore *)
(* the code that runs between two awaits of one sendMessage invocation:    *)
(* the resolution of `await fetch` or `await reader.read()` together with  *)
(* the synchronous code that follows it.  The rejection that               *)
(* AbortController.abort() causes in a superseded invocation is a promise  *)
(* job: it runs (AbortExit) before any later task, which the guard         *)
(* NoPendingJob on every task-level action expresses.                      *)
(*                                                                         *)
(* React state.  setX(updater) is applied when the handler runs; a value   *)
(* that a useCallback closure captured (activeChatId, chats, sessionId) is *)
(* the value of the render in which the request was sent and is kept per   *)
(* request in `streams[r].h`.                                              *)
(***************************************************************************)
EXTENDS Integers, Sequences, FiniteSets, TLC

\* ------------------------------------------------------------------ bounds
MaxReq == 3        \* requests opened in one run
MaxReads == 2      \* chunks the transport delivers to one request

Req == 1..MaxReq
NoStream == 0      \* currentStreamIdRef.current === null / streamId undefined
NoSession == "null"
Undefined == -1    \* an absent numeric field of a payload

\* ------------------------------------------------------------------ wire text
\* A chunk is a sequence of text tokens.  "NL" is the newline, "SP" a space,
\* "data:" the five characters of the field prefix, ":" a leading colon of a
\* comment line, "[DONE]" the sentinel text; every other token is the text of
\* a payload, which JSONParse turns into a value or fails on.
NL == "NL"
SP == "SP"

\* The `data` object of a response event (ChatApiResponse['data']); a field
\* that is absent is an empty sequence, FALSE, or "undefined" for `success`.
\* hasCart, hasJourney, hasConfirm and hasNextOps say that cart_context,
\* journey_context, simple_data.confirm_context and
\* journey_context.next_operations are present (an empty list is present).
NoData ==
  [products |-> <<>>, hasCart |-> FALSE, cart_items |-> <<>>, total_items |-> 0,
   total_value |-> 0, hasJourney |-> FALSE, hasNextOps |-> FALSE,
   next_operations |-> <<>>, hasConfirm |-> FALSE, success |-> "undefined"]

\* JSON.parse of a payload text (useChatStream.ts:102).  ok = FALSE is a
\* SyntaxError; the value is the parsed object.
JSONParse(text) ==
  CASE text = "{thinking:a}" ->
         [ok |-> TRUE, value |-> [type |-> "thinking", message |-> "a", session_id |-> NoSession]]
    [] text = "{thinking:b}" ->
         [ok |-> TRUE, value |-> [type |-> "thinking", message |-> "b", session_id |-> "s1"]]
    [] text = "{tool_start:t}" ->
         [ok |-> TRUE, value |-> [type |-> "tool_start", tool |-> "t", status |-> "running", session_id |-> NoSession]]
    [] text = "{tool_start:u}" ->
         [ok |-> TRUE, value |-> [type |-> "tool_start", tool |-> "u", status |-> "running", session_id |-> NoSession]]
    [] text = "{chunk:c}" ->
         [ok |-> TRUE, value |-> [type |-> "conversation_chunk", message |-> "c", stage |-> "st", session_id |-> NoSession]]
    [] text = "{chunk:d}" ->
         [ok |-> TRUE, value |-> [type |-> "conversation_chunk", message |-> "d", stage |-> "st", session_id |-> NoSession]]
    [] text = "{raw_products:p}" ->
         [ok |-> TRUE, value |-> [type |-> "raw_products", products |-> <<"p1">>, session_id |-> NoSession]]
    [] text = "{raw_products:}" ->
         [ok |-> TRUE, value |-> [type |-> "raw_products", products |-> <<>>, session_id |-> NoSession]]
    [] text = "{raw_cart:k}" ->
         [ok |-> TRUE, value |-> [type |-> "raw_cart", session_id |-> NoSession, cart_items |-> <<>>,
                                  cart_summary |-> [items |-> <<[id |-> "k1", count |-> 1, price |-> 5]>>,
                                                    total_items |-> 1, total_value |-> 5]]]
    [] text = "{response:hi}" ->
         [ok |-> TRUE, value |-> [type |-> "response", content |-> <<"hi">>, session_id |-> NoSession,
                                  context_type |-> "none", hasData |-> FALSE, data |-> NoData]]
    [] text = "{response:init}" ->
         [ok |-> TRUE, value |-> [type |-> "response", content |-> <<"Session Ready">>,
                                  session_id |-> "s1", context_type |-> "none",
                                  hasData |-> FALSE, data |-> NoData]]
    [] text = "{response:pay}" ->
         [ok |-> TRUE, value |-> [type |-> "response",
                                  content |-> <<"Your order has been initialized", "RUPEE", "120">>,
                                  session_id |-> NoSession, context_type |-> "none",
                                  hasData |-> FALSE, data |-> NoData]]
    [] text = "{response:pay0}" ->
         [ok |-> TRUE, value |-> [type |-> "response",
                                  content |-> <<"Your order has been initialized">>,
                                  session_id |-> NoSession, context_type |-> "none",
                                  hasData |-> FALSE, data |-> NoData]]
    [] text = "{response:paycart}" ->
         [ok |-> TRUE, value |-> [type |-> "response",
                                  content |-> <<"Your order has been initialized", "RUPEE", "75",
                                                "RUPEE", "120">>,
                                  session_id |-> NoSession, context_type |-> "cart_view",
                                  hasData |-> TRUE,
                                  data |-> [NoData EXCEPT !.hasCart = TRUE,
                                                          !.cart_items = <<[id |-> "k2"]>>,
                                                          !.total_items = 2, !.total_value = 9]]]
    [] text = "{response:payready}" ->
         [ok |-> TRUE, value |-> [type |-> "response",
                                  content |-> <<"Session Ready", "Your order has been initialized",
                                                "RUPEE", "75">>,
                                  session_id |-> NoSession, context_type |-> "none",
                                  hasData |-> FALSE, data |-> NoData]]
    [] text = "{response:found}" ->
         [ok |-> TRUE, value |-> [type |-> "response", content |-> <<"found">>,
                                  session_id |-> NoSession, context_type |-> "search_results",
                                  hasData |-> TRUE,
                                  data |-> [NoData EXCEPT !.products = <<"p2">>]]]
    [] text = "{raw_cart:}" ->
         [ok |-> TRUE, value |-> [type |-> "raw_cart", session_id |-> NoSession, cart_items |-> <<>>,
                                  cart_summary |-> [items |-> <<>>, total_items |-> 0,
                                                    total_value |-> 0]]]
    [] text = "{response:cart}" ->
         [ok |-> TRUE, value |-> [type |-> "response", content |-> <<"cart">>,
                                  session_id |-> NoSession, context_type |-> "cart_view",
                                  hasData |-> TRUE,
                                  data |-> [NoData EXCEPT !.hasCart = TRUE,
                                                          !.cart_items = <<[id |-> "k2"]>>,
                                                          !.total_items = 2, !.total_value = 9]]]
    [] text = "{response:ready}" ->
         [ok |-> TRUE, value |-> [type |-> "response",
                                  content |-> <<"initialized a new shopping session">>,
                                  session_id |-> NoSession, context_type |-> "cart_view",
                                  hasData |-> TRUE,
                                  data |-> [NoData EXCEPT !.hasCart = TRUE,
                                                          !.cart_items = <<[id |-> "k3"]>>,
                                                          !.total_items = 3, !.total_value = 7]]]
    [] text = "{done}" ->
         [ok |-> TRUE, value |-> [type |-> "done"]]
    [] OTHER -> [ok |-> FALSE, value |-> [type |-> "SyntaxError"]]

\* ------------------------------------------------------------------ state
VARIABLES
  chats,               \* useState<ChatSession[]>: sequence of [id, messages]
  activeChatId,        \* useState('c1')
  isLoading,           \* useState(false)
  sessionId,           \* useState<string | null>(null)
  cartState,           \* useState({itemCount: 0, total: 0})
  init,                \* hasInitialized ref and the pending initializeSession
  currentStreamIdRef,  \* useRef<string | null>(null): a request number, or NoStream
  abortControllerRef,  \* the request whose AbortController the ref holds, or 0
  isStreamingRef,      \* useRef(false)
  streams,             \* one record per sendMessage invocation of the hook
  wire,                \* the chunks the server of this run can send
  last                 \* what the last step did (observation only)

vars == <<chats, activeChatId, isLoading, sessionId, cartState, init,
          currentStreamIdRef, abortControllerRef, isStreamingRef, streams, wire, last>>

\* ------------------------------------------------------------------ transcript
Msg(type, content, extra, streamId) ==
  [type |-> type, content |-> content, extra |-> extra, streamId |-> streamId]

\* prev.map((c) => c.id !== activeChatId ? c : {...c, messages: F(c.messages)})
MapChat(prev, chatId, F(_)) ==
  [i \in DOMAIN prev |->
     IF prev[i].id # chatId THEN prev[i] ELSE [prev[i] EXCEPT !.messages = F(@)]]

IsThinkingOrTool(m) == m.type = "bot_thinking" \/ m.type = "bot_tool_executing"

IsTemporary(m) ==
  m.type = "bot_thinking" \/ m.type = "bot_tool_executing" \/ m.type = "bot_conversation_chunk"

\* The UI state the callbacks write: ui = [chats, sessionId, cartState, isLoading].
\* `cur` is currentStreamIdRef.current, `chatId` the activeChatId the callback
\* closed over.

SetSessionId(ui, session_id) ==
  IF session_id # NoSession THEN [ui EXCEPT !.sessionId = session_id] ELSE ui

\* Mutant of removeThinkingMessages: the filter forgets the stream identity.
removeThinkingMessagesAnyStream(ui, chatId, cur) ==
  [ui EXCEPT !.chats = MapChat(@, chatId,
     LAMBDA msgs : SelectSeq(msgs, LAMBDA m : ~IsThinkingOrTool(m)))]

removeThinkingMessages(ui, chatId, cur) ==
  [ui EXCEPT !.chats = MapChat(@, chatId,
     LAMBDA msgs : SelectSeq(msgs, LAMBDA m : ~(IsThinkingOrTool(m) /\ m.streamId = cur)))]

\* Mutant of handleThinking: the new entry is appended, the old one is kept.
handleThinkingAppendOnly(ui, chatId, cur, message, session_id) ==
  LET thinkingMsg == Msg("bot_thinking", <<message>>, "", cur)
      u == SetSessionId(ui, session_id)
  IN [u EXCEPT !.chats = MapChat(@, chatId, LAMBDA msgs : Append(msgs, thinkingMsg))]

handleThinking(ui, chatId, cur, message, session_id) ==
  LET thinkingMsg == Msg("bot_thinking", <<message>>, "", cur)
      u == SetSessionId(ui, session_id)
  IN [u EXCEPT !.chats = MapChat(@, chatId,
        LAMBDA msgs : Append(SelectSeq(msgs,
            LAMBDA m : ~(m.type = "bot_thinking" /\ m.streamId = cur)), thinkingMsg))]

handleToolStart(ui, chatId, cur, tool, status, session_id) ==
  LET toolMsg == Msg("bot_tool_executing", <<tool>>, status, cur)
      u == SetSessionId(ui, session_id)
  IN [u EXCEPT !.chats = MapChat(@, chatId,
        LAMBDA msgs : Append(SelectSeq(msgs,
            LAMBDA m : ~(m.type = "bot_tool_executing" /\ m.streamId = cur)), toolMsg))]

\* Mutant of handleConversationChunk: the filter forgets the stream identity.
handleConversationChunkAnyStream(ui, chatId, cur, chunk) ==
  LET chunkMsg == Msg("bot_conversation_chunk", <<chunk.message>>, chunk.stage, cur)
      u == SetSessionId(ui, chunk.session_id)
  IN [u EXCEPT !.chats = MapChat(@, chatId,
        LAMBDA msgs : Append(SelectSeq(msgs,
            LAMBDA m : ~(m.type = "bot_conversation_chunk")), chunkMsg))]

handleConversationChunk(ui, chatId, cur, chunk) ==
  LET chunkMsg == Msg("bot_conversation_chunk", <<chunk.message>>, chunk.stage, cur)
      u == SetSessionId(ui, chunk.session_id)
  IN [u EXCEPT !.chats = MapChat(@, chatId,
        LAMBDA msgs : Append(SelectSeq(msgs,
            LAMBDA m : ~(m.type = "bot_conversation_chunk" /\ m.streamId = cur)), chunkMsg))]

\* Mutant of createMessagesFromResponse: the product list is appended whenever
\* the data holds products, whatever the context type.
createMessagesFromResponseAnyContext(response) ==
  LET d == response.data
      ct == response.context_type
      text == IF response.content # <<>>
              THEN <<Msg("bot", response.content, "", NoStream)>> ELSE <<>>
      products == IF Len(d.products) > 0
                  THEN <<Msg("bot_product_list", d.products, "", NoStream)>> ELSE <<>>
      error == IF ct = "error_message" \/ d.success = "false"
               THEN <<Msg("bot_error", <<"An error occurred">>, "api_error", NoStream)>>
               ELSE <<>>
  IN IF response.hasData THEN text \o products \o error ELSE text

\* createMessagesFromResponse (pages/Chat): the entries a response expands to.
createMessagesFromResponse(response) ==
  LET d == response.data
      ct == response.context_type
      text == IF response.content # <<>>
              THEN <<Msg("bot", response.content, "", NoStream)>> ELSE <<>>
      products == IF ct = "search_results" /\ Len(d.products) > 0
                  THEN <<Msg("bot_product_list", d.products, "", NoStream)>> ELSE <<>>
      cart == IF ct = "cart_view" /\ d.hasCart
              THEN <<Msg("bot_cart_view", [i \in DOMAIN d.cart_items |-> d.cart_items[i].id], "", NoStream)>>
              ELSE <<>>
      checkout == IF ct = "checkout_stage" /\ d.hasJourney
                  THEN <<Msg("bot_checkout_stage", <<>>, "", NoStream)>> ELSE <<>>
      confirm == IF ct = "order_confirmation" /\ d.hasConfirm
                 THEN <<Msg("bot_order_confirmation", <<>>, "INR", NoStream)>> ELSE <<>>
      error == IF ct = "error_message" \/ d.success = "false"
               THEN <<Msg("bot_error",
                          IF response.content # <<>> THEN response.content
                          ELSE <<"An error occurred">>, "api_error", NoStream)>>
               ELSE <<>>
      success == IF ct = "success_message" /\ d.hasJourney /\ d.hasNextOps
                 THEN <<Msg("bot_success",
                            IF response.content # <<>> THEN response.content
                            ELSE <<"Operation completed successfully">>, "", NoStream)>>
                 ELSE <<>>
  IN IF response.hasData
     THEN text \o products \o cart \o checkout \o confirm \o error \o success
     ELSE text

Includes(content, phrase) == \E i \in DOMAIN content : content[i] = phrase

\* response.content.match(/\u20B9(\d+\.?\d*)/): the number text after the first
\* rupee sign that is followed by digits, "0" when there is none.
PaymentAmount(content) ==
  LET hits == {i \in DOMAIN content :
                 content[i] = "RUPEE" /\ i < Len(content) /\ content[i + 1] \in {"120", "75"}}
  IN IF hits = {} THEN "0"
     ELSE content[(CHOOSE i \in hits : \A j \in hits : i <= j) + 1]

\* Mutant of handleResponse: the payment phrasing is not looked for, a
\* response with it is expanded by its context type like any other.
handleResponseNoPayment(ui, chatId, cur, response) ==
  LET u == SetSessionId(ui, response.session_id)
  IN IF Includes(response.content, "initialized a new shopping session")
        \/ Includes(response.content, "Session Ready")
     THEN removeThinkingMessages(u, chatId, cur)
     ELSE LET c == IF response.hasData /\ response.data.hasCart
                   THEN [u EXCEPT !.cartState =
                           [itemCount |-> IF response.data.total_items = Undefined THEN 0
                                          ELSE response.data.total_items,
                            total |-> IF response.data.total_value = Undefined THEN 0
                                      ELSE response.data.total_value]]
                   ELSE u
              newMessages == createMessagesFromResponse(response)
          IN [c EXCEPT !.chats = MapChat(@, chatId,
                LAMBDA msgs :
                  SelectSeq(msgs, LAMBDA m : ~(IsTemporary(m) /\ m.streamId = cur))
                  \o newMessages)]

\* Mutant of handleResponse: the session-initialized response is handled like
\* any other response.
handleResponseNoSuppression(ui, chatId, cur, response) ==
  LET u == SetSessionId(ui, response.session_id)
      c == IF response.hasData /\ response.data.hasCart
           THEN [u EXCEPT !.cartState =
                   [itemCount |-> IF response.data.total_items = Undefined THEN 0
                                  ELSE response.data.total_items,
                    total |-> IF response.data.total_value = Undefined THEN 0
                              ELSE response.data.total_value]]
           ELSE u
      newMessages == createMessagesFromResponse(response)
  IN [c EXCEPT !.chats = MapChat(@, chatId,
        LAMBDA msgs :
          SelectSeq(msgs, LAMBDA m : ~(IsTemporary(m) /\ m.streamId = cur))
          \o newMessages)]

handleResponse(ui, chatId, cur, response) ==
  LET u == SetSessionId(ui, response.session_id)
  IN IF Includes(response.content, "initialized a new shopping session")
        \/ Includes(response.content, "Session Ready")
     THEN removeThinkingMessages(u, chatId, cur)
     ELSE IF Includes(response.content, "Your order has been initialized")
     THEN [u EXCEPT !.chats = MapChat(@, chatId,
             LAMBDA msgs :
               SelectSeq(msgs, LAMBDA m : ~(IsThinkingOrTool(m) /\ m.streamId = cur))
               \o <<Msg("bot", response.content, "", NoStream),
                    Msg("bot_payment_initiated", <<PaymentAmount(response.content)>>, "INR", NoStream)>>)]
     ELSE LET c == IF response.hasData /\ response.data.hasCart
                   THEN [u EXCEPT !.cartState =
                           [itemCount |-> IF response.data.total_items = Undefined THEN 0
                                          ELSE response.data.total_items,
                            total |-> IF response.data.total_value = Undefined THEN 0
                                      ELSE response.data.total_value]]
                   ELSE u
              newMessages == createMessagesFromResponse(response)
          IN [c EXCEPT !.chats = MapChat(@, chatId,
                LAMBDA msgs :
                  SelectSeq(msgs, LAMBDA m : ~(IsTemporary(m) /\ m.streamId = cur))
                  \o newMessages)]

handleRawProducts(ui, chatId, cur, response) ==
  LET u == SetSessionId(ui, response.session_id)
  IN IF Len(response.products) = 0
     THEN removeThinkingMessages(u, chatId, cur)
     ELSE LET productMessage == Msg("bot_product_list", response.products, "", cur)
          IN [u EXCEPT !.chats = MapChat(@, chatId,
                LAMBDA msgs : Append(SelectSeq(msgs,
                    LAMBDA m : ~(IsTemporary(m) /\ m.streamId = cur)
                               /\ ~(m.type = "bot_product_list" /\ m.streamId = cur)),
                  productMessage))]

RECURSIVE SumItems(_, _)
SumItems(items, field) ==
  IF items = <<>> THEN 0
  ELSE (IF field = "count" THEN items[1].count ELSE items[1].price * items[1].count)
       + SumItems(Tail(items), field)

handleRawCart(ui, chatId, cur, response) ==
  LET u == SetSessionId(ui, response.session_id)
      summary == response.cart_summary
      hasSummaryItems == Len(summary.items) > 0
      normalizedCartSummary ==
        IF ~hasSummaryItems /\ Len(response.cart_items) > 0
        THEN [items |-> response.cart_items,
              total_items |-> IF summary.total_items # Undefined THEN summary.total_items
                              ELSE SumItems(response.cart_items, "count"),
              total_value |-> IF summary.total_value # Undefined THEN summary.total_value
                              ELSE SumItems(response.cart_items, "subtotal")]
        ELSE summary
      hasItemsNow == Len(normalizedCartSummary.items) > 0
      total_items == IF normalizedCartSummary.total_items = Undefined THEN 0
                     ELSE normalizedCartSummary.total_items
      total_value == IF normalizedCartSummary.total_value = Undefined THEN 0
                     ELSE normalizedCartSummary.total_value
      cartMessage == Msg("bot_cart_view",
                         [i \in DOMAIN normalizedCartSummary.items |-> normalizedCartSummary.items[i].id],
                         "", cur)
  IN IF ~hasItemsNow
     THEN removeThinkingMessages(u, chatId, cur)
     ELSE [u EXCEPT
             !.cartState = [itemCount |-> total_items, total |-> total_value],
             !.chats = MapChat(@, chatId,
                LAMBDA msgs : Append(SelectSeq(msgs,
                    LAMBDA m : ~(IsTemporary(m) /\ m.streamId = cur)
                               /\ ~(m.type = "bot_cart_view" /\ m.streamId = cur)),
                  cartMessage))]

\* `capChats` is the `chats` value handleStreamError closed over.
handleStreamError(ui, chatId, cur, capChats) ==
  LET swept == removeThinkingMessages([ui EXCEPT !.isLoading = FALSE], chatId, cur)
      shouldAppendMessage ==
        \E i \in DOMAIN capChats : capChats[i].id = chatId /\ capChats[i].hasMessages
      errorMsg == Msg("bot_error", <<"Sorry, I encountered an error. Please try again.">>,
                      "network_error", NoStream)
  IN IF shouldAppendMessage
     THEN [swept EXCEPT !.chats = MapChat(@, chatId, LAMBDA msgs : Append(msgs, errorMsg))]
     ELSE swept

handleStreamComplete(ui, chatId, cur) ==
  removeThinkingMessages([ui EXCEPT !.isLoading = FALSE], chatId, cur)

\* ------------------------------------------------------------------ frame decoder
\* buffer.split('\n'): the pieces between newlines; the last piece is the
\* text after the last newline (useChatStream.ts:79).
RECURSIVE Split(_)
Split(text) ==
  IF \A i \in DOMAIN text : text[i] # NL THEN <<text>>
  ELSE LET n == CHOOSE i \in DOMAIN text : text[i] = NL /\ \A j \in 1..(i - 1) : text[j] # NL
       IN <<SubSeq(text, 1, n - 1)>> \o Split(SubSeq(text, n + 1, Len(text)))

\* String.prototype.trim
RECURSIVE Trim(_)
Trim(text) ==
  IF text = <<>> THEN text
  ELSE IF text[1] = SP THEN Trim(Tail(text))
  ELSE IF text[Len(text)] = SP THEN Trim(SubSeq(text, 1, Len(text) - 1))
  ELSE text

\* Mutant of IsDoneMarker: only the bare marker is recognised.
IsDoneMarkerBareOnly(trimmedLine) == trimmedLine = <<"[DONE]">>

\* Mutant of IsDoneMarker: an event of kind done ends the stream too.
IsDoneMarkerOrDoneEvent(trimmedLine) ==
  \/ trimmedLine = <<"[DONE]">>
  \/ trimmedLine = <<"data:", SP, "[DONE]">>
  \/ trimmedLine = <<"data:", SP, "{done}">>

\* trimmedLine === '[DONE]' || trimmedLine === 'data: [DONE]' (useChatStream.ts:91)
IsDoneMarker(trimmedLine) ==
  trimmedLine = <<"[DONE]">> \/ trimmedLine = <<"data:", SP, "[DONE]">>

\* JSON.parse(trimmedLine.substring(5).trim()): a payload is one token; the
\* empty string and text glued to a payload are syntax errors.
ParseData(trimmedLine) ==
  LET jsonStr == Trim(Tail(trimmedLine))
  IN IF Len(jsonStr) = 1 THEN JSONParse(jsonStr[1])
     ELSE [ok |-> FALSE, value |-> [type |-> "SyntaxError"]]

HandledTypes ==
  {"thinking", "conversation_chunk", "tool_start", "response", "raw_products", "raw_cart"}

\* Mutant of Dispatch: a conversation chunk is given to the thinking handler.
DispatchChunkAsThinking(ui, h, cur, data) ==
  CASE data.type = "thinking" ->
         handleThinking(ui, h.activeChatId, cur, data.message, data.session_id)
    [] data.type = "conversation_chunk" ->
         handleThinking(ui, h.activeChatId, cur, data.message, data.session_id)
    [] data.type = "tool_start" ->
         handleToolStart(ui, h.activeChatId, cur, data.tool, data.status, data.session_id)
    [] data.type = "response" -> handleResponse(ui, h.activeChatId, cur, data)
    [] data.type = "raw_products" -> handleRawProducts(ui, h.activeChatId, cur, data)
    [] data.type = "raw_cart" -> handleRawCart(ui, h.activeChatId, cur, data)
    [] OTHER -> ui

\* The if/else chain on data.type (useChatStream.ts:105-117); h is the closure
\* of the request: [activeChatId, sessionId, chats].
Dispatch(ui, h, cur, data) ==
  CASE data.type = "thinking" ->
         handleThinking(ui, h.activeChatId, cur, data.message, data.session_id)
    [] data.type = "conversation_chunk" ->
         handleConversationChunk(ui, h.activeChatId, cur, data)
    [] data.type = "tool_start" ->
         handleToolStart(ui, h.activeChatId, cur, data.tool, data.status, data.session_id)
    [] data.type = "response" -> handleResponse(ui, h.activeChatId, cur, data)
    [] data.type = "raw_products" -> handleRawProducts(ui, h.activeChatId, cur, data)
    [] data.type = "raw_cart" -> handleRawCart(ui, h.activeChatId, cur, data)
    [] OTHER -> ui

\* The for loop over the complete lines of one chunk (useChatStream.ts:82-122).
\* calls records, per line index, the callback the line invoked.
RECURSIVE ProcessLines(_, _, _, _, _, _)
\* Mutant of ProcessLines: a payload that fails to parse ends the loop over the
\* lines of the chunk (a break where the code continues).
ProcessLinesBreakOnSyntaxError(lines, i, ui, calls, h, cur) ==
  IF i > Len(lines) THEN [ui |-> ui, calls |-> calls, completed |-> FALSE]
  ELSE
    LET trimmedLine == Trim(lines[i])
    IN IF trimmedLine = <<>> \/ trimmedLine[1] = ":"
       THEN ProcessLines(lines, i + 1, ui, calls, h, cur)
       ELSE IF IsDoneMarker(trimmedLine)
       THEN [ui |-> handleStreamComplete(ui, h.activeChatId, cur),
             calls |-> Append(calls, [line |-> i, fn |-> "onComplete"]),
             completed |-> TRUE]
       ELSE IF trimmedLine[1] = "data:"
       THEN LET parsed == ParseData(trimmedLine)
            IN IF parsed.ok /\ parsed.value.type \in HandledTypes
               THEN ProcessLines(lines, i + 1, Dispatch(ui, h, cur, parsed.value),
                                 Append(calls, [line |-> i, fn |-> parsed.value.type]), h, cur)
               ELSE IF parsed.ok
               THEN ProcessLines(lines, i + 1, ui, calls, h, cur)
               ELSE [ui |-> ui, calls |-> calls, completed |-> FALSE]
       ELSE ProcessLines(lines, i + 1, ui, calls, h, cur)

\* Mutant of ProcessLines: the handler of a record runs after the records that
\* follow it in the chunk were processed.
ProcessLinesLaterFirst(lines, i, ui, calls, h, cur) ==
  IF i > Len(lines) THEN [ui |-> ui, calls |-> calls, completed |-> FALSE]
  ELSE
    LET trimmedLine == Trim(lines[i])
    IN IF trimmedLine = <<>> \/ trimmedLine[1] = ":"
       THEN ProcessLines(lines, i + 1, ui, calls, h, cur)
       ELSE IF IsDoneMarker(trimmedLine)
       THEN [ui |-> handleStreamComplete(ui, h.activeChatId, cur),
             calls |-> Append(calls, [line |-> i, fn |-> "onComplete"]),
             completed |-> TRUE]
       ELSE IF trimmedLine[1] = "data:"
       THEN LET parsed == ParseData(trimmedLine)
                rest == ProcessLines(lines, i + 1, ui, calls, h, cur)
            IN IF parsed.ok /\ parsed.value.type \in HandledTypes
               THEN [ui |-> Dispatch(rest.ui, h, cur, parsed.value),
                     calls |-> Append(rest.calls, [line |-> i, fn |-> parsed.value.type]),
                     completed |-> rest.completed]
               ELSE rest
       ELSE ProcessLines(lines, i + 1, ui, calls, h, cur)

\* Mutant of ProcessLines: a line without the field prefix is parsed as a
\* payload too.
ProcessLinesPrefixOptional(lines, i, ui, calls, h, cur) ==
  IF i > Len(lines) THEN [ui |-> ui, calls |-> calls, completed |-> FALSE]
  ELSE
    LET trimmedLine == Trim(lines[i])
    IN IF trimmedLine = <<>> \/ trimmedLine[1] = ":"
       THEN ProcessLines(lines, i + 1, ui, calls, h, cur)
       ELSE IF IsDoneMarker(trimmedLine)
       THEN [ui |-> handleStreamComplete(ui, h.activeChatId, cur),
             calls |-> Append(calls, [line |-> i, fn |-> "onComplete"]),
             completed |-> TRUE]
       ELSE LET parsed == IF trimmedLine[1] = "data:" THEN ParseData(trimmedLine)
                          ELSE ParseData(<<"data:">> \o trimmedLine)
            IN IF parsed.ok /\ parsed.value.type \in HandledTypes
               THEN ProcessLines(lines, i + 1, Dispatch(ui, h, cur, parsed.value),
                                 Append(calls, [line |-> i, fn |-> parsed.value.type]), h, cur)
               ELSE ProcessLines(lines, i + 1, ui, calls, h, cur)

ProcessLines(lines, i, ui, calls, h, cur) ==
  IF i > Len(lines) THEN [ui |-> ui, calls |-> calls, completed |-> FALSE]
  ELSE
    LET trimmedLine == Trim(lines[i])
    IN IF trimmedLine = <<>> \/ trimmedLine[1] = ":"
       THEN ProcessLines(lines, i + 1, ui, calls, h, cur)
       ELSE IF IsDoneMarker(trimmedLine)
       THEN [ui |-> handleStreamComplete(ui, h.activeChatId, cur),
             calls |-> Append(calls, [line |-> i, fn |-> "onComplete"]),
             completed |-> TRUE]
       ELSE IF trimmedLine[1] = "data:"
       THEN LET parsed == ParseData(trimmedLine)
            IN IF parsed.ok /\ parsed.value.type \in HandledTypes
               THEN ProcessLines(lines, i + 1, Dispatch(ui, h, cur, parsed.value),
                                 Append(calls, [line |-> i, fn |-> parsed.value.type]), h, cur)
               ELSE ProcessLines(lines, i + 1, ui, calls, h, cur)
       ELSE ProcessLines(lines, i + 1, ui, calls, h, cur)

\* ------------------------------------------------------------------ transport
\* What one reader.read() can deliver: the chunks the server of a run sends.
Chunks ==
  { <<"data:", SP, "{thinking:a}", NL>>,
    <<"data:", SP, "{thinking:b}", NL, "data:", SP, "{tool_start:t}", NL>>,
    <<"data:", SP, "{chunk:c}", NL, "data:", SP, "{chunk:d}", NL>>,
    <<"data:", SP, "{raw_products:p}", NL>>,
    <<"data:", SP, "[DONE]", NL, "data:", SP, "{thinking:a}", NL>>,
    <<"data:", SP, "{done}", NL, "data:", SP, "{thinking:b}", NL>> }

\* ------------------------------------------------------------------ actions
\* The values of the render whose callbacks a request uses.
\* Of the captured `chats` only what handleStreamError reads is kept: per chat,
\* whether it had messages (pages/Chat:709-710).
Closure ==
  [activeChatId |-> activeChatId, sessionId |-> sessionId,
   chats |-> [i \in DOMAIN chats |->
                [id |-> chats[i].id, hasMessages |-> Len(chats[i].messages) > 0]]]

UI == [chats |-> chats, sessionId |-> sessionId, cartState |-> cartState,
       isLoading |-> isLoading]

NoClosure == [activeChatId |-> "c1", sessionId |-> NoSession,
              chats |-> <<[id |-> "c1", hasMessages |-> FALSE]>>]

\* produced is an observation: the kinds of durable entries (product list,
\* cart view) the invocation has appended so far.
Unsent ==
  [pc |-> "unsent", aborted |-> FALSE, buffer |-> <<>>, reads |-> 0, h |-> NoClosure,
   kind |-> "none", body |-> NoSession, onComplete |-> 0, onError |-> 0, produced |-> {}]

Idle == [op |-> "init", r |-> 0, lines |-> <<>>, calls |-> <<>>]

InitWith(chunks) ==
  /\ wire = chunks
  /\ chats = <<[id |-> "c1", messages |-> <<>>]>>
  /\ activeChatId = "c1"
  /\ isLoading = FALSE
  /\ sessionId = NoSession
  /\ cartState = [itemCount |-> 0, total |-> 0]
  /\ init = [phase |-> "idle", h |-> NoClosure]
  /\ currentStreamIdRef = NoStream
  /\ abortControllerRef = 0
  /\ isStreamingRef = FALSE
  /\ streams = [r \in Req |-> Unsent]
  /\ last = Idle

Init == InitWith(Chunks)

Open(r) == streams[r].pc \in {"fetch", "read"}

\* A rejection caused by abort() is a promise job: it runs before the next task.
NoPendingJob == \A r \in Req : ~(Open(r) /\ streams[r].aborted)

Fresh(r) == streams[r].pc = "unsent" /\ \A q \in Req : q < r => streams[q].pc # "unsent"

TotalReads == LET RECURSIVE Sum(_)
                  Sum(n) == IF n = 0 THEN 0 ELSE streams[n].reads + Sum(n - 1)
              IN Sum(MaxReq)

SetUI(ui) ==
  /\ chats' = ui.chats
  /\ sessionId' = ui.sessionId
  /\ cartState' = ui.cartState
  /\ isLoading' = ui.isLoading

\* abortControllerRef.current.abort() of useChatStream.ts:31-33
AbortCurrent(ss) ==
  IF abortControllerRef # 0
  THEN [ss EXCEPT ![abortControllerRef].aborted = TRUE]
  ELSE ss

\* Chat.sendMessage (pages/Chat) and the hook's sendMessage up to `await fetch`.
\* h is the closure of the render that created the callback.
sendMessage(r, h, kind, appendMessage) ==
  /\ currentStreamIdRef' = r
  /\ chats' = IF appendMessage
              THEN MapChat(chats, h.activeChatId,
                           LAMBDA msgs : Append(msgs, Msg("user", <<"msg">>, "", NoStream)))
              ELSE chats
  /\ isLoading' = TRUE
  /\ streams' = [AbortCurrent(streams) EXCEPT
                   ![r] = [Unsent EXCEPT !.pc = "fetch", !.h = h, !.kind = kind,
                                         !.body = h.sessionId]]
  /\ abortControllerRef' = r
  /\ isStreamingRef' = TRUE
  /\ last' = [op |-> "send", r |-> r, lines |-> <<>>, calls |-> <<>>]
  /\ UNCHANGED <<activeChatId, sessionId, cartState, wire>>

\* The user sends a message from the rendered screen.
UserSend(r) ==
  /\ NoPendingJob
  /\ Fresh(r)
  /\ sendMessage(r, Closure, "user", TRUE)
  /\ UNCHANGED init

\* The effect of pages/Chat:812-841 up to `await getOrCreateDeviceId()`.
InitializeSession ==
  /\ NoPendingJob
  /\ init.phase = "idle"
  /\ init' = [phase |-> "awaiting", h |-> Closure]
  /\ last' = [op |-> "effect", r |-> 0, lines |-> <<>>, calls |-> <<>>]
  /\ UNCHANGED <<chats, activeChatId, isLoading, sessionId, cartState,
                 currentStreamIdRef, abortControllerRef, isStreamingRef, streams, wire>>

\* The device identifier is there: sendMessage(initMessage, false).
DeviceIdResolved(r) ==
  /\ NoPendingJob
  /\ init.phase = "awaiting"
  /\ Fresh(r)
  /\ sendMessage(r, init.h, "init", FALSE)
  /\ init' = [init EXCEPT !.phase = "sent"]

\* finally { isStreamingRef.current = false; abortControllerRef.current = null }
Finally(r, ss) ==
  /\ isStreamingRef' = FALSE
  /\ abortControllerRef' = 0
  /\ streams' = [ss EXCEPT ![r].pc = "exited"]

\* Mutant of Catch: the AbortError test is missing, every rejection is reported.
CatchReportsAbort(r, name) ==
  /\ Finally(r, [streams EXCEPT ![r].onError = @ + 1])
  /\ SetUI(handleStreamError(UI, streams[r].h.activeChatId, currentStreamIdRef,
                              streams[r].h.chats))
  /\ last' = [op |-> "error", r |-> r, lines |-> <<>>,
              calls |-> <<[line |-> 0, fn |-> "onError"]>>]

\* Mutant of Catch: the error is swallowed, onError is not called.
CatchSwallows(r, name) ==
  /\ Finally(r, streams)
  /\ UNCHANGED <<chats, sessionId, cartState, isLoading>>
  /\ last' = [op |-> IF name = "AbortError" THEN "abortExit" ELSE "error",
              r |-> r, lines |-> <<>>, calls |-> <<>>]

\* catch (error): an AbortError returns, any other Error goes to onError.
Catch(r, name) ==
  IF name = "AbortError"
  THEN /\ Finally(r, streams)
       /\ UNCHANGED <<chats, sessionId, cartState, isLoading>>
       /\ last' = [op |-> "abortExit", r |-> r, lines |-> <<>>, calls |-> <<>>]
  ELSE /\ Finally(r, [streams EXCEPT ![r].onError = @ + 1])
       /\ SetUI(handleStreamError(UI, streams[r].h.activeChatId, currentStreamIdRef,
                                   streams[r].h.chats))
       /\ last' = [op |-> "error", r |-> r, lines |-> <<>>,
                   calls |-> <<[line |-> 0, fn |-> "onError"]>>]

\* The promise a superseded request awaits rejects with an AbortError.
AbortExit(r) ==
  /\ Open(r)
  /\ streams[r].aborted
  /\ Catch(r, "AbortError")
  /\ UNCHANGED <<activeChatId, init, currentStreamIdRef, wire>>

\* fetch resolves with an ok response that has a body; the while condition is
\* evaluated for the first time (useChatStream.ts:53-66).
FetchOk(r) ==
  /\ NoPendingJob
  /\ streams[r].pc = "fetch"
  /\ IF isStreamingRef
     THEN /\ streams' = [streams EXCEPT ![r].pc = "read"]
          /\ UNCHANGED <<isStreamingRef, abortControllerRef>>
     ELSE Finally(r, streams)
  /\ last' = [op |-> "fetchOk", r |-> r, lines |-> <<>>, calls |-> <<>>]
  /\ UNCHANGED <<chats, activeChatId, isLoading, sessionId, cartState, init,
                 currentStreamIdRef, wire>>

\* fetch rejects, the status is not ok, or the response has no body.
FetchFail(r) ==
  /\ NoPendingJob
  /\ streams[r].pc = "fetch"
  /\ Catch(r, "Error")
  /\ UNCHANGED <<activeChatId, init, currentStreamIdRef, wire>>

\* The payload texts of the lines that invoked a handler, in call order.
Dispatched(lines, calls) ==
  LET hs == SelectSeq(calls, LAMBDA c : c.fn # "onComplete")
  IN [k \in DOMAIN hs |-> LET t == Trim(lines[hs[k].line]) IN t[Len(t)]]

\* The entries of one kind.
OfType(msgs, type) == SelectSeq(msgs, LAMBDA m : m.type = type)

\* Whether dispatching a payload text appends an entry of the kind: through
\* raw_products / raw_cart with a payload that is not empty, or through a
\* response that expands to it.
Appends(text, type) ==
  LET e == JSONParse(text).value
  IN \/ type = "bot_product_list" /\ e.type = "raw_products" /\ Len(e.products) > 0
     \/ type = "bot_cart_view" /\ e.type = "raw_cart"
          /\ (Len(e.cart_summary.items) > 0 \/ Len(e.cart_items) > 0)
     \/ /\ e.type = "response"
        /\ ~Includes(e.content, "initialized a new shopping session")
        /\ ~Includes(e.content, "Session Ready")
        /\ ~Includes(e.content, "Your order has been initialized")
        /\ OfType(createMessagesFromResponse(e), type) # <<>>

Produced(texts) ==
  {type \in {"bot_product_list", "bot_cart_view"} :
     \E k \in DOMAIN texts : Appends(texts[k], type)}

\* Mutant of Deliver: the handlers write to the chat that is active when the
\* chunk arrives, not to the chat that was active when the request was sent.
DeliverToActiveChat(r, chunk) ==
  LET pieces == Split(streams[r].buffer \o chunk)
      lines == SubSeq(pieces, 1, Len(pieces) - 1)
      res == ProcessLines(lines, 1, UI, <<>>,
                          [streams[r].h EXCEPT !.activeChatId = activeChatId],
                          currentStreamIdRef)
      ss == [streams EXCEPT ![r].buffer = pieces[Len(pieces)],
                            ![r].reads = @ + 1,
                            ![r].onComplete = @ + (IF res.completed THEN 1 ELSE 0),
                            ![r].produced = @ \cup Produced(Dispatched(lines, res.calls))]
  IN /\ SetUI(res.ui)
     /\ IF res.completed \/ ~isStreamingRef
        THEN Finally(r, ss)
        ELSE /\ streams' = ss
             /\ UNCHANGED <<isStreamingRef, abortControllerRef>>
     /\ last' = [op |-> "chunk", r |-> r, lines |-> lines, calls |-> res.calls]

\* Mutant of Deliver: the text after the last newline is processed as a line
\* instead of being kept in the buffer.
DeliverNoBuffer(r, chunk) ==
  LET lines == Split(streams[r].buffer \o chunk)
      res == ProcessLines(lines, 1, UI, <<>>, streams[r].h, currentStreamIdRef)
      ss == [streams EXCEPT ![r].buffer = <<>>,
                            ![r].reads = @ + 1,
                            ![r].onComplete = @ + (IF res.completed THEN 1 ELSE 0),
                            ![r].produced = @ \cup Produced(Dispatched(lines, res.calls))]
  IN /\ SetUI(res.ui)
     /\ IF res.completed \/ ~isStreamingRef
        THEN Finally(r, ss)
        ELSE /\ streams' = ss
             /\ UNCHANGED <<isStreamingRef, abortControllerRef>>
     /\ last' = [op |-> "chunk", r |-> r, lines |-> lines, calls |-> res.calls]

\* One pass of the while loop after reader.read() resolved with a chunk: the
\* complete lines are processed, the rest stays in the buffer, and the while
\* condition is evaluated again (useChatStream.ts:66-123).
Deliver(r, chunk) ==
  LET pieces == Split(streams[r].buffer \o chunk)
      lines == SubSeq(pieces, 1, Len(pieces) - 1)
      res == ProcessLines(lines, 1, UI, <<>>, streams[r].h, currentStreamIdRef)
      ss == [streams EXCEPT ![r].buffer = pieces[Len(pieces)],
                            ![r].reads = @ + 1,
                            ![r].onComplete = @ + (IF res.completed THEN 1 ELSE 0),
                            ![r].produced = @ \cup Produced(Dispatched(lines, res.calls))]
  IN /\ SetUI(res.ui)
     /\ IF res.completed \/ ~isStreamingRef
        THEN Finally(r, ss)
        ELSE /\ streams' = ss
             /\ UNCHANGED <<isStreamingRef, abortControllerRef>>
     /\ last' = [op |-> "chunk", r |-> r, lines |-> lines, calls |-> res.calls]

\* reader.read() resolves with one of the chunks the server can send.
ReadChunk(r, chunk) ==
  /\ NoPendingJob
  /\ streams[r].pc = "read"
  /\ TotalReads < MaxReads
  /\ Deliver(r, chunk)
  /\ UNCHANGED <<activeChatId, init, currentStreamIdRef, wire>>

\* reader.read() resolves with done: onComplete, break, finally.
ReadDone(r) ==
  /\ NoPendingJob
  /\ streams[r].pc = "read"
  /\ SetUI(handleStreamComplete(UI, streams[r].h.activeChatId, currentStreamIdRef))
  /\ Finally(r, [streams EXCEPT ![r].onComplete = @ + 1])
  /\ last' = [op |-> "done", r |-> r, lines |-> <<>>,
              calls |-> <<[line |-> 0, fn |-> "onComplete"]>>]
  /\ UNCHANGED <<activeChatId, init, currentStreamIdRef, wire>>

\* reader.read() rejects with a network error.
ReadFail(r) ==
  /\ NoPendingJob
  /\ streams[r].pc = "read"
  /\ Catch(r, "Error")
  /\ UNCHANGED <<activeChatId, init, currentStreamIdRef, wire>>

Next ==
  \/ \E r \in Req : UserSend(r)
  \/ \E r \in Req : AbortExit(r)
  \/ \E r \in Req : FetchOk(r)
  \/ \E r \in Req : FetchFail(r)
  \/ \E r \in Req, chunk \in wire : ReadChunk(r, chunk)
  \/ \E r \in Req : ReadDone(r)
  \/ \E r \in Req : ReadFail(r)

Spec == Init /\ [][Next]_vars

\* abort() of the hook (useChatStream.ts:139-144); pages/Chat does not call it.
abort ==
  /\ NoPendingJob
  /\ abortControllerRef # 0
  /\ streams' = AbortCurrent(streams)
  /\ isStreamingRef' = FALSE
  /\ last' = [op |-> "abort", r |-> abortControllerRef, lines |-> <<>>, calls |-> <<>>]
  /\ UNCHANGED <<chats, activeChatId, isLoading, sessionId, cartState, init,
                 currentStreamIdRef, abortControllerRef, wire>>

\* The hook with a caller that also uses abort().
NextAbort ==
  \/ Next
  \/ abort

SpecAbort == Init /\ [][NextAbort]_vars

\* The same program with the session initialisation of the mount effect.
NextSession ==
  \/ Next
  \/ InitializeSession
  \/ \E r \in Req : DeviceIdResolved(r)

SpecSession == Init /\ [][NextSession]_vars

\* A server whose chunks carry the terminal events (response, raw_products,
\* raw_cart) on every branch of their handlers, and a record that is not JSON.
TerminalChunks ==
  { <<"data:", SP, "{thinking:a}", NL, "data:", SP, "not-json", NL,
      "data:", NL, "data:", SP, "{thinking:b}", NL>>,
    <<"data:", SP, "{chunk:c}", NL, "data:", SP, "{raw_products:}", NL,
      "data:", SP, "{chunk:d}", NL, "data:", SP, "{response:init}", NL>>,
    <<"data:", SP, "{raw_products:p}", NL, "data:", SP, "{response:found}", NL>>,
    <<"data:", SP, "{tool_start:t}", NL, "data:", SP, "{chunk:d}", NL,
      "data:", SP, "{response:hi}", NL>>,
    <<"data:", SP, "{raw_cart:k}", NL, "data:", SP, "{chunk:c}", NL,
      "data:", SP, "{response:pay}", NL>> }

SpecTerminal == InitWith(TerminalChunks) /\ [][Next]_vars

\* A server whose records exercise the framing rules: a payload without the
\* field prefix, the sentinel glued to the prefix, an event of an unknown kind,
\* and several events before the sentinel.
FramingChunks ==
  { <<"{thinking:a}", NL, "data:", "{thinking:b}", NL>>,
    <<"data:", "[DONE]", NL, "data:", SP, "{tool_start:t}", NL>>,
    <<"data:", SP, "{done}", NL, "data:", SP, "{chunk:c}", NL>>,
    <<"data:", SP, "{raw_products:p}", NL, "data:", SP, "{tool_start:u}", NL,
      "data:", SP, "{response:hi}", NL, "data:", SP, "{thinking:a}", NL>>,
    <<"data:", SP, "{chunk:d}", NL, "data:", SP, "{thinking:b}", NL,
      SP, "[DONE]", SP, NL, "data:", SP, "{thinking:a}", NL>> }

SpecFraming == InitWith(FramingChunks) /\ [][Next]_vars

\* A server whose events carry cart data, also for an empty cart, next to
\* events that carry none.
CartChunks ==
  { <<"data:", SP, "{raw_cart:k}", NL>>,
    <<"data:", SP, "{raw_cart:}", NL>>,
    <<"data:", SP, "{response:cart}", NL>>,
    <<"data:", SP, "{response:ready}", NL>>,
    <<"data:", SP, "{thinking:a}", NL, "data:", SP, "{response:hi}", NL>>,
    <<"data:", SP, "{tool_start:t}", NL>> }

SpecCart == InitWith(CartChunks) /\ [][Next]_vars

\* A server whose responses carry the payment phrasing: with an amount,
\* without one, with two amounts and cart data, and together with the
\* session-initialized phrasing.
PaymentChunks ==
  { <<"data:", SP, "{thinking:a}", NL, "data:", SP, "{chunk:c}", NL,
      "data:", SP, "{response:pay}", NL>>,
    <<"data:", SP, "{raw_cart:k}", NL>>,
    <<"data:", SP, "{response:pay0}", NL>>,
    <<"data:", SP, "{response:paycart}", NL>>,
    <<"data:", SP, "{response:payready}", NL>> }

SpecPayment == InitWith(PaymentChunks) /\ [][Next]_vars

\* A server that sends one fixed text, cut into read chunks at any places;
\* the text ends with the sentinel, so the stream is not closed before it.
MaxPieces == 3     \* read chunks the text is cut into

StreamText ==
  <<"data:", SP, "{thinking:a}", NL, "data:", "{tool_start:t}", NL,
    "data:", SP, "[DONE]", NL>>

Cuts == {c \in SUBSET (1..(Len(StreamText) - 1)) : Cardinality(c) < MaxPieces}

\* The pieces of StreamText that end at the places of c and at its end.
PiecesOf(c) ==
  LET ends == c \cup {Len(StreamText)}
      End(k) == CHOOSE x \in ends : Cardinality({y \in ends : y < x}) = k - 1
  IN [k \in 1..Cardinality(ends) |->
        SubSeq(StreamText, IF k = 1 THEN 1 ELSE End(k - 1) + 1, End(k))]

InitSplit == \E c \in Cuts : InitWith(PiecesOf(c))

\* reader.read() resolves with the next piece of the text.
ReadPiece(r) ==
  /\ NoPendingJob
  /\ streams[r].pc = "read"
  /\ streams[r].reads < Len(wire)
  /\ Deliver(r, wire[streams[r].reads + 1])
  /\ UNCHANGED <<activeChatId, init, currentStreamIdRef, wire>>

NextSplit ==
  \/ \E r \in Req : UserSend(r)
  \/ \E r \in Req : AbortExit(r)
  \/ \E r \in Req : FetchOk(r)
  \/ \E r \in Req : ReadPiece(r)

SpecSplit == InitSplit /\ [][NextSplit]_vars

\* The chat list of the sidebar. A new chat is named after the clock
\* (`c${Date.now()}`); the clock of a run is wire.now, it is past the name of
\* the first chat and moves on with every click, so names are not reused.
\* MaxClicks bounds the clicks on the sidebar in a run, MaxChatReq the
\* requests sent while the sidebar is in use.
MaxClicks == 2

MaxChatReq == 2

ChatChunks ==
  { <<"data:", SP, "{thinking:a}", NL>>,
    <<"data:", SP, "{response:hi}", NL>> }

InitChats ==
  /\ wire = [chunks |-> ChatChunks, now |-> 2]
  /\ chats = <<[id |-> "c1", messages |-> <<>>]>>
  /\ activeChatId = "c1"
  /\ isLoading = FALSE
  /\ sessionId = NoSession
  /\ cartState = [itemCount |-> 0, total |-> 0]
  /\ init = [phase |-> "idle", h |-> NoClosure]
  /\ currentStreamIdRef = NoStream
  /\ abortControllerRef = 0
  /\ isStreamingRef = FALSE
  /\ streams = [r \in Req |-> Unsent]
  /\ last = Idle

\* createChat (pages/Chat:785-789)
createChat ==
  /\ NoPendingJob
  /\ wire.now < 2 + MaxClicks
  /\ LET id == "c" \o ToString(wire.now)
     IN /\ chats' = Append(chats, [id |-> id, messages |-> <<>>])
        /\ activeChatId' = id
  /\ wire' = [wire EXCEPT !.now = @ + 1]
  /\ last' = [op |-> "createChat", r |-> 0, lines |-> <<>>, calls |-> <<>>]
  /\ UNCHANGED <<isLoading, sessionId, cartState, init, currentStreamIdRef,
                 abortControllerRef, isStreamingRef, streams>>

\* Mutant of deleteChat: the active chat id is kept when the active chat is
\* deleted.
deleteChatKeepsActive(id) ==
  /\ NoPendingJob
  /\ wire.now < 2 + MaxClicks
  /\ \E i \in DOMAIN chats : chats[i].id = id
  /\ IF Len(chats) = 1
     THEN UNCHANGED <<chats, activeChatId>>
     ELSE /\ chats' = SelectSeq(chats, LAMBDA c : c.id # id)
          /\ UNCHANGED activeChatId
  /\ wire' = [wire EXCEPT !.now = @ + 1]
  /\ last' = [op |-> "deleteChat", r |-> 0, lines |-> <<>>, calls |-> <<>>]
  /\ UNCHANGED <<isLoading, sessionId, cartState, init, currentStreamIdRef,
                 abortControllerRef, isStreamingRef, streams>>

\* deleteChat(id) (pages/Chat:791-801), for a chat the sidebar lists
deleteChat(id) ==
  /\ NoPendingJob
  /\ wire.now < 2 + MaxClicks
  /\ \E i \in DOMAIN chats : chats[i].id = id
  /\ IF Len(chats) = 1
     THEN UNCHANGED <<chats, activeChatId>>
     ELSE LET updated == SelectSeq(chats, LAMBDA c : c.id # id)
          IN /\ chats' = updated
             /\ activeChatId' = IF activeChatId = id THEN updated[1].id ELSE activeChatId
  /\ wire' = [wire EXCEPT !.now = @ + 1]
  /\ last' = [op |-> "deleteChat", r |-> 0, lines |-> <<>>, calls |-> <<>>]
  /\ UNCHANGED <<isLoading, sessionId, cartState, init, currentStreamIdRef,
                 abortControllerRef, isStreamingRef, streams>>

\* switchChat(id) (pages/Chat:803), for a chat the sidebar lists
switchChat(id) ==
  /\ NoPendingJob
  /\ wire.now < 2 + MaxClicks
  /\ \E i \in DOMAIN chats : chats[i].id = id
  /\ activeChatId' = id
  /\ wire' = [wire EXCEPT !.now = @ + 1]
  /\ last' = [op |-> "switchChat", r |-> 0, lines |-> <<>>, calls |-> <<>>]
  /\ UNCHANGED <<chats, isLoading, sessionId, cartState, init, currentStreamIdRef,
                 abortControllerRef, isStreamingRef, streams>>

ChatIdsListed == {chats[i].id : i \in DOMAIN chats}

NextChats ==
  \/ \E r \in 1..MaxChatReq : UserSend(r)
  \/ \E r \in Req : AbortExit(r)
  \/ \E r \in Req : FetchOk(r)
  \/ \E r \in Req : FetchFail(r)
  \/ \E r \in Req, chunk \in wire.chunks : ReadChunk(r, chunk)
  \/ \E r \in Req : ReadDone(r)
  \/ createChat
  \/ \E id \in ChatIdsListed : deleteChat(id)
  \/ \E id \in ChatIdsListed : switchChat(id)

SpecChats == InitChats /\ [][NextChats]_vars

\* The response payloads createMessagesFromResponse is checked on: every
\* context type with every combination of text and structured data.
ContextTypes ==
  {"search_results", "cart_view", "checkout_stage", "order_confirmation", "error_message",
   "success_message", "none"}

Responses ==
  { [type |-> "response", content |-> c, session_id |-> NoSession, context_type |-> ct,
     hasData |-> FALSE, data |-> NoData] : c \in {<<>>, <<"hi">>}, ct \in ContextTypes }
  \cup
  { [type |-> "response", content |-> c, session_id |-> NoSession, context_type |-> ct,
     hasData |-> TRUE,
     data |-> [NoData EXCEPT !.products = p,
                             !.hasCart = f[1],
                             !.cart_items = IF f[1] THEN <<[id |-> "k1"]>> ELSE <<>>,
                             !.hasJourney = f[2],
                             !.hasNextOps = f[2] /\ f[3],
                             !.hasConfirm = f[4],
                             !.success = ok]] :
     c \in {<<>>, <<"hi">>}, ct \in ContextTypes, p \in {<<>>, <<"p1">>},
     f \in [1..4 -> BOOLEAN], ok \in {"undefined", "true", "false"} }

\* One response is given to createMessagesFromResponse; the entries it returns
\* become the transcript.
InitExpand ==
  /\ wire \in Responses
  /\ chats = <<[id |-> "c1", messages |-> <<>>]>>
  /\ activeChatId = "c1"
  /\ isLoading = FALSE
  /\ sessionId = NoSession
  /\ cartState = [itemCount |-> 0, total |-> 0]
  /\ init = [phase |-> "idle", h |-> NoClosure]
  /\ currentStreamIdRef = NoStream
  /\ abortControllerRef = 0
  /\ isStreamingRef = FALSE
  /\ streams = [r \in Req |-> Unsent]
  /\ last = Idle

ExpandResponse ==
  /\ last.op = "init"
  /\ chats' = <<[id |-> "c1", messages |-> createMessagesFromResponse(wire)]>>
  /\ last' = [op |-> "expand", r |-> 0, lines |-> <<>>, calls |-> <<>>]
  /\ UNCHANGED <<activeChatId, isLoading, sessionId, cartState, init, currentStreamIdRef,
                 abortControllerRef, isStreamingRef, streams, wire>>

NextExpand == ExpandResponse

SpecExpand == InitExpand /\ [][NextExpand]_vars

\* ------------------------------------------------------------------ claims
\* Helpers of the statements below.
Messages == chats[1].messages

Sent(r) == streams[r].pc # "unsent"

Exited(r) == streams[r].pc = "exited"

\* A line that is the sentinel, with or without the field prefix.
SentinelLine(line) ==
  Trim(line) = <<"[DONE]">> \/ Trim(line) = <<"data:", SP, "[DONE]">>

FirstSentinel(lines) ==
  CHOOSE i \in DOMAIN lines :
    SentinelLine(lines[i]) /\ \A j \in 1..(i - 1) : ~SentinelLine(lines[j])

HasSentinel(lines) == \E i \in DOMAIN lines : SentinelLine(lines[i])

\* C1: every request that has ended reported exactly one outcome: onComplete
\* once, or onError once, or it was cancelled and called neither.
C1_ExactlyOneOutcome ==
  \A r \in Req :
    Exited(r) =>
      \/ streams[r].onComplete = 1 /\ streams[r].onError = 0 /\ ~streams[r].aborted
      \/ streams[r].onComplete = 0 /\ streams[r].onError = 1 /\ ~streams[r].aborted
      \/ streams[r].onComplete = 0 /\ streams[r].onError = 0 /\ streams[r].aborted

\* C2: when a chunk holds the sentinel line, the step that processes it calls
\* onComplete exactly once, for the first time, invokes no callback for a line
\* after the sentinel and ends the invocation; an invocation that has completed
\* takes no further step, so nothing of a later chunk is dispatched.
C2_SentinelCompletes ==
  [][ /\ (last'.op = "chunk" /\ HasSentinel(last'.lines)) =>
           LET i == FirstSentinel(last'.lines)
               r == last'.r
           IN /\ streams'[r].onComplete = 1
              /\ streams[r].onComplete = 0
              /\ Len(SelectSeq(last'.calls, LAMBDA c : c.fn = "onComplete")) = 1
              /\ \A k \in DOMAIN last'.calls : last'.calls[k].line <= i
              /\ last'.calls[Len(last'.calls)] = [line |-> i, fn |-> "onComplete"]
              /\ streams'[r].pc = "exited"
      /\ \A r \in Req :
           (Exited(r) /\ streams[r].onComplete = 1) =>
             (streams'[r] = streams[r] /\ last'.r # r)
    ]_vars

\* C2 witness: a chunk with lines after the sentinel was processed, after an
\* earlier chunk of the same request had put a thinking entry in the transcript.
C2_Witness ==
  /\ last.op = "chunk"
  /\ HasSentinel(last.lines)
  /\ FirstSentinel(last.lines) < Len(last.lines)
  /\ streams[last.r].reads = 2
  /\ streams[last.r].onComplete = 1
  /\ Exited(last.r)

\* A line carrying a well-formed event of kind done.
DoneEventLine(line) == Trim(line) = <<"data:", SP, "{done}">>

\* A data line whose payload parses to an event that has a handler.
EventLine(line) ==
  LET t == Trim(line)
  IN /\ Len(t) = 3 /\ t[1] = "data:" /\ t[2] = SP
     /\ JSONParse(t[3]).ok /\ JSONParse(t[3]).value.type \in HandledTypes

C4_SupersededIsCancelled ==
  [][ /\ \A r2 \in Req :
           (~Sent(r2) /\ streams'[r2].pc = "fetch") =>
             \A r1 \in Req : Open(r1) => streams'[r1].aborted
      /\ \A r1, r2 \in Req :
           (r1 < r2 /\ Sent(r2)) =>
             /\ streams'[r1].onComplete = streams[r1].onComplete
             /\ streams'[r1].onError = streams[r1].onError
    ]_vars

\* C5: once a request that was superseded has exited and the superseding
\* request is open, no transient entry tagged with the superseded request's
\* identity is in the transcript.
C5_SupersededEntriesRemoved ==
  \A r1, r2 \in Req :
    (r1 < r2 /\ Sent(r2) /\ Exited(r1) /\ streams[r1].aborted) =>
      \A k \in DOMAIN Messages :
        ~(IsTemporary(Messages[k]) /\ Messages[k].streamId = r1)

\* C6: the exit of a cancelled invocation leaves the streaming flag and the
\* cancellation handle of the request that superseded it unchanged.
C6_CancelledExitLeavesSuccessor ==
  [][ \A r1 \in Req :
        (Open(r1) /\ streams[r1].aborted /\ streams'[r1].pc = "exited"
           /\ abortControllerRef # 0 /\ abortControllerRef # r1) =>
          /\ abortControllerRef' = abortControllerRef
          /\ isStreamingRef' = isStreamingRef
    ]_vars

\* An invocation whose token is unsignaled and that can still call a handler,
\* onComplete or onError.
Active(r) == Open(r) /\ ~streams[r].aborted

\* C7: at most one stream is logically active.
C7_AtMostOneActive ==
  Cardinality({r \in Req : Active(r)}) <= 1

\* C8: once the cancellation token of an invocation is signaled, the
\* invocation calls no handler, no onComplete and no onError, and the step in
\* which it exits changes nothing of the transcript, the session id, the cart
\* summary or the loading flag.
C8_NoCallbackAfterSignal ==
  [][ \A r \in Req :
        streams[r].aborted =>
          /\ streams'[r].onComplete = streams[r].onComplete
          /\ streams'[r].onError = streams[r].onError
          /\ (last'.r = r) =>
                /\ last'.calls = <<>>
                /\ UNCHANGED <<chats, sessionId, cartState, isLoading>>
    ]_vars

\* C8 witness: an invocation that had dispatched a chunk was cancelled by
\* abort() (no later request exists) and has exited.
C8_Witness ==
  /\ last.op = "abortExit"
  /\ streams[last.r].reads >= 1
  /\ streams[last.r].aborted
  /\ Exited(last.r)
  /\ \A q \in Req : q > last.r => ~Sent(q)
  /\ \E k \in DOMAIN Messages : IsTemporary(Messages[k]) /\ Messages[k].streamId = last.r

\* The entries of one kind tagged with one stream identity.
Owned(msgs, type, id) == SelectSeq(msgs, LAMBDA m : m.type = type /\ m.streamId = id)

EntryType(fn) ==
  CASE fn = "thinking" -> "bot_thinking"
    [] fn = "tool_start" -> "bot_tool_executing"
    [] fn = "conversation_chunk" -> "bot_conversation_chunk"

EntryOf(line, id) ==
  LET e == JSONParse(Trim(line)[3]).value
  IN CASE e.type = "thinking" -> Msg("bot_thinking", <<e.message>>, "", id)
       [] e.type = "tool_start" -> Msg("bot_tool_executing", <<e.tool>>, e.status, id)
       [] e.type = "conversation_chunk" ->
            Msg("bot_conversation_chunk", <<e.message>>, e.stage, id)

C11_HistoryPreserved ==
  [][ (last'.op \in {"chunk", "done"}) =>
        \A type \in {"bot_product_list", "bot_cart_view"} :
          (type \notin streams[last'.r].produced) =>
            LET old == OfType(Messages, type)
                new == OfType(chats'[1].messages, type)
            IN Len(new) >= Len(old) /\ SubSeq(new, 1, Len(old)) = old
    ]_vars

\* C12: once a request has ended with onComplete or with onError, no thinking,
\* tool-executing or conversation-chunk entry tagged with its identity is in
\* the transcript.
C12_CompletionSweep ==
  \A r \in Req :
    (Exited(r) /\ streams[r].onComplete + streams[r].onError >= 1) =>
      \A k \in DOMAIN Messages :
        ~(IsTemporary(Messages[k]) /\ Messages[k].streamId = r)

\* The event kinds that are terminal frames.
TerminalTypes == {"response", "raw_products", "raw_cart"}

\* C13: a step that applies a terminal frame (response, raw_products or
\* raw_cart) as its last event leaves no thinking, tool-executing or
\* conversation-chunk entry tagged with the current request in the transcript,
\* whatever branch of the handler the frame takes.
C13_TerminalRemovesTransients ==
  [][ (/\ last'.op = "chunk"
       /\ last'.calls # <<>>
       /\ last'.calls[Len(last'.calls)].fn \in TerminalTypes) =>
        \A k \in DOMAIN chats'[1].messages :
          ~(IsTemporary(chats'[1].messages[k])
            /\ chats'[1].messages[k].streamId = currentStreamIdRef)
    ]_vars

\* A `data:` record whose payload is not JSON.
Malformed(line) ==
  LET t == Trim(line)
  IN t # <<>> /\ t[1] = "data:" /\ ~IsDoneMarker(t) /\ ~ParseData(t).ok

Fns(calls) == [k \in DOMAIN calls |-> calls[k].fn]

\* C14: a step that processes a chunk with malformed `data:` records invokes
\* no callback for such a record, calls neither onError nor (for it)
\* onComplete, and has the effect of processing the same lines without those
\* records: the same callbacks in the same order, the same transcript, session
\* id, cart and loading flag, and the same decision to go on reading.
C14_MalformedSkipped ==
  [][ (/\ last'.op = "chunk"
       /\ \E i \in DOMAIN last'.lines : Malformed(last'.lines[i])) =>
        LET r == last'.r
            good == SelectSeq(last'.lines, LAMBDA l : ~Malformed(l))
            res == ProcessLines(good, 1, UI, <<>>, streams[r].h, currentStreamIdRef)
        IN /\ \A k \in DOMAIN last'.calls : ~Malformed(last'.lines[last'.calls[k].line])
           /\ Fns(last'.calls) = Fns(res.calls)
           /\ <<chats', sessionId', cartState', isLoading'>>
                = <<res.ui.chats, res.ui.sessionId, res.ui.cartState, res.ui.isLoading>>
           /\ streams'[r].onError = streams[r].onError
           /\ streams'[r].onComplete = streams[r].onComplete + (IF res.completed THEN 1 ELSE 0)
           /\ (isStreamingRef /\ ~res.completed) => streams'[r].pc = "read"
    ]_vars

\* C14 witness: the chunk thinking a, not-json, empty payload, thinking b was
\* processed by a request that goes on reading; both thinking events were
\* dispatched and the entry of the second replaced the entry of the first.
C14_Witness ==
  /\ last.op = "chunk"
  /\ Len(last.lines) = 4
  /\ Malformed(last.lines[2]) /\ Malformed(last.lines[3])
  /\ last.calls = <<[line |-> 1, fn |-> "thinking"], [line |-> 4, fn |-> "thinking"]>>
  /\ streams[last.r].pc = "read"
  /\ streams[last.r].onError = 0
  /\ Owned(Messages, "bot_thinking", last.r) = <<Msg("bot_thinking", <<"b">>, "", last.r)>>

\* C15: the step in which a request fails at transport level (fetch rejected,
\* status not ok, no body reader, or a read rejected mid-stream) calls onError,
\* for the first time and once, and ends the invocation; onComplete has not
\* been called for that request; and a request that has reported an error
\* takes no further step, so it calls no handler, no onComplete and no second
\* onError.
C15_TransportFailureReportsOnce ==
  [][ /\ (last'.op = "error") =>
           LET r == last'.r
           IN /\ last'.calls = <<[line |-> 0, fn |-> "onError"]>>
              /\ streams[r].onError = 0
              /\ streams'[r].onError = 1
              /\ streams'[r].onComplete = 0
              /\ streams'[r].pc = "exited"
      /\ \A r \in Req :
           (streams[r].onError >= 1) =>
             (Exited(r) /\ streams'[r] = streams[r] /\ last'.r # r)
    ]_vars

\* C15 witness: a read failed mid-stream, after the request had dispatched
\* events; onError was called once and the request has ended.
C15_Witness ==
  /\ last.op = "error"
  /\ streams[last.r].reads >= 1
  /\ \E k \in DOMAIN Messages : Messages[k].streamId = last.r
  /\ streams[last.r].onError = 1
  /\ streams[last.r].onComplete = 0
  /\ Exited(last.r)

\* C16: the step in which a request fails at transport level calls onError
\* once; when the transcript holds entries at that moment, exactly one error
\* entry (network error) is added, at the end of the transcript; when the
\* transcript is empty, no error entry is added.
C16_ErrorEntryOnHistory ==
  [][ (last'.op = "error") =>
        LET old == OfType(Messages, "bot_error")
            new == OfType(chats'[1].messages, "bot_error")
            msgs == chats'[1].messages
        IN /\ streams'[last'.r].onError = 1
           /\ IF Messages # <<>>
              THEN /\ Len(new) = Len(old) + 1
                   /\ msgs[Len(msgs)].type = "bot_error"
                   /\ msgs[Len(msgs)].extra = "network_error"
              ELSE new = old
    ]_vars

\* C17: after abort() was called on an open stream (the request is cancelled
\* and no later request exists) the request calls neither onComplete nor
\* onError, no error entry is in the transcript because of it, and once it has
\* exited no thinking, tool-executing or conversation-chunk entry tagged with
\* it is left in the transcript.
C17_AbortSweeps ==
  \A r \in Req :
    (streams[r].aborted /\ \A q \in Req : q > r => ~Sent(q)) =>
      /\ streams[r].onComplete = 0
      /\ streams[r].onError = 0
      /\ (\A q \in Req : streams[q].onError = 0) => OfType(Messages, "bot_error") = <<>>
      /\ Exited(r) =>
            \A k \in DOMAIN Messages :
              ~(IsTemporary(Messages[k]) /\ Messages[k].streamId = r)

\* C18: when a request that has already produced a product-list (cart-view)
\* entry dispatches further events, the number of entries of that kind in the
\* transcript does not grow: a later entry of the request takes the place of
\* the earlier one.  In a step of a request that has produced none yet, the
\* number grows by at most one.
C18_LatestWinsWithinRequest ==
  [][ (last'.op = "chunk") =>
        \A type \in {"bot_product_list", "bot_cart_view"} :
          LET r == last'.r
              had == type \in streams[r].produced
              old == Len(OfType(Messages, type))
              new == Len(OfType(chats'[1].messages, type))
          IN new <= old + (IF had THEN 0 ELSE 1)
    ]_vars

\* The entry kinds that are only ever appended.
PureAppendTypes ==
  {"user", "bot", "bot_error", "bot_success", "bot_checkout_stage",
   "bot_order_confirmation", "bot_payment_initiated"}

\* An entry no handler may touch while `cur` is the current request.
Protected(m, cur) ==
  m.type \in PureAppendTypes \/ (m.streamId # NoStream /\ m.streamId # cur)

\* C19: a step that runs event handlers or a terminal callback (onComplete,
\* onError) keeps every entry of a pure-append kind and every entry tagged with
\* a request other than the current one: those entries are in the new
\* transcript of every chat, unchanged and in their old order, before any
\* entry the step added.
C19_OthersUntouched ==
  [][ (last'.op \in {"chunk", "done", "error"}) =>
        \A c \in DOMAIN chats :
          LET old == SelectSeq(chats[c].messages, LAMBDA m : Protected(m, currentStreamIdRef))
              new == SelectSeq(chats'[c].messages, LAMBDA m : Protected(m, currentStreamIdRef))
          IN /\ DOMAIN chats' = DOMAIN chats
             /\ Len(new) >= Len(old)
             /\ SubSeq(new, 1, Len(old)) = old
    ]_vars

\* C19 witness: a response of the current request removed that request's
\* transient entries and appended a bot entry, while a thinking entry tagged
\* with an earlier request and the user entries are still in the transcript.
C19_Witness ==
  /\ last.op = "chunk"
  /\ \E k \in DOMAIN last.calls : last.calls[k].fn = "response"
  /\ \E k \in DOMAIN last.calls : last.calls[k].fn = "tool_start"
  /\ \E k \in DOMAIN Messages :
       IsTemporary(Messages[k]) /\ Messages[k].streamId \notin {NoStream, currentStreamIdRef}
  /\ \A k \in DOMAIN Messages :
       ~(IsTemporary(Messages[k]) /\ Messages[k].streamId = currentStreamIdRef)
  /\ Len(OfType(Messages, "user")) >= 2
  /\ Messages[Len(Messages)].type = "bot"

\* The text of the first n read chunks of the run, and what processing that
\* text as one single chunk dispatches.
Consumed(n) ==
  LET RECURSIVE Cat(_)
      Cat(k) == IF k = 0 THEN <<>> ELSE Cat(k - 1) \o wire[k]
  IN Cat(n)

InOneChunk(r, n) ==
  LET pieces == Split(Consumed(n))
      lines == SubSeq(pieces, 1, Len(pieces) - 1)
      res == ProcessLines(lines, 1, UI, <<>>, streams[r].h, currentStreamIdRef)
  IN [log |-> Dispatched(lines, res.calls), completed |-> res.completed]

\* C20: whatever way the text is cut into read chunks, the n-th read of a
\* request invokes exactly the handlers by which the text of the first n
\* chunks, taken as one chunk, extends the text of the first n - 1 (the text
\* after the last newline dispatches nothing yet); the request completes in
\* that read iff the sentinel line is complete in the first n chunks, and it
\* had not read on after a complete sentinel line.  So the sequence of handler
\* invocations and the point of completion are those of the uncut text.
C20_ChunkingIndependent ==
  [][ (last'.op = "chunk") =>
        LET r == last'.r
            n == streams[r].reads
            step == Dispatched(last'.lines, last'.calls)
            completes == \E k \in DOMAIN last'.calls : last'.calls[k].fn = "onComplete"
        IN /\ streams'[r].reads = n + 1
           /\ InOneChunk(r, n + 1).log = InOneChunk(r, n).log \o step
           /\ ~InOneChunk(r, n).completed
           /\ completes <=> InOneChunk(r, n + 1).completed
           /\ completes => (streams'[r].onComplete = 1 /\ streams'[r].pc = "exited")
    ]_vars

\* C20 witness: the text arrived in three chunks, cut inside the first record
\* and inside the sentinel record; the third read completed the request at
\* the sentinel after the second had dispatched both events.
C20_Witness ==
  /\ Len(wire) = 3
  /\ wire[1] = <<"data:", SP>>
  /\ wire[3] = <<"[DONE]", NL>>
  /\ last.op = "chunk"
  /\ last.calls = <<[line |-> 1, fn |-> "onComplete"]>>
  /\ streams[last.r].reads = 3
  /\ InOneChunk(last.r, 2).log = <<"{thinking:a}", "{tool_start:t}">>
  /\ streams[last.r].onComplete = 1
  /\ Exited(last.r)

\* A record that carries a well-formed event payload of a handled kind without
\* the field prefix.
BarePayload(line) ==
  LET t == Trim(line)
  IN /\ Len(t) = 1
     /\ JSONParse(t[1]).ok
     /\ JSONParse(t[1]).value.type \in HandledTypes

\* The same records with the field prefix put before every bare payload.
Prefixed(lines) ==
  [i \in DOMAIN lines |-> IF BarePayload(lines[i]) THEN <<"data:">> \o Trim(lines[i])
                          ELSE lines[i]]

PayloadOf(t) ==
  IF t # <<>> /\ t[1] = "data:"
  THEN LET u == Tail(t) IN IF u # <<>> /\ u[1] = SP THEN Tail(u) ELSE u
  ELSE t

\* The three spellings of the sentinel: [DONE], data: [DONE] and data:[DONE].
SentinelPayload(line) == PayloadOf(Trim(line)) = <<"[DONE]">>

\* C22: in a step that processes a chunk, the first line whose payload is
\* exactly [DONE] (bare, behind `data: ` or behind `data:`) ends the stream:
\* onComplete is called at that line, no line after it is dispatched and the
\* invocation ends; no such line reaches a handler; and onComplete is called
\* at no line whose payload is anything else.
C22_SentinelRecognised ==
  [][ last'.op = "chunk" =>
        LET r == last'.r
            lines == last'.lines
            calls == last'.calls
        IN /\ \A k \in DOMAIN calls :
                calls[k].fn = "onComplete" <=> SentinelPayload(lines[calls[k].line])
           /\ \A i \in DOMAIN lines :
                (SentinelPayload(lines[i]) /\ \A j \in 1..(i - 1) : ~SentinelPayload(lines[j]))
                => /\ \E k \in DOMAIN calls : calls[k] = [line |-> i, fn |-> "onComplete"]
                   /\ \A k \in DOMAIN calls : calls[k].line <= i
                   /\ streams'[r].pc = "exited"
    ]_vars

\* The event a data record carries, and a record whose event parsed but is of
\* none of the six kinds.
EventIn(line) == ParseData(Trim(line)).value

UnknownKind(line) ==
  LET t == Trim(line)
  IN /\ t # <<>>
     /\ t[1] = "data:"
     /\ ~IsDoneMarker(t)
     /\ ParseData(t).ok
     /\ ParseData(t).value.type \notin HandledTypes

\* The handler registered for a callback name.
HandlerNamed(fn, ui, h, cur, data) ==
  CASE fn = "thinking" -> handleThinking(ui, h.activeChatId, cur, data.message, data.session_id)
    [] fn = "conversation_chunk" -> handleConversationChunk(ui, h.activeChatId, cur, data)
    [] fn = "tool_start" ->
         handleToolStart(ui, h.activeChatId, cur, data.tool, data.status, data.session_id)
    [] fn = "response" -> handleResponse(ui, h.activeChatId, cur, data)
    [] fn = "raw_products" -> handleRawProducts(ui, h.activeChatId, cur, data)
    [] fn = "raw_cart" -> handleRawCart(ui, h.activeChatId, cur, data)
    [] fn = "onComplete" -> handleStreamComplete(ui, h.activeChatId, cur)

\* The interface state after the first k recorded calls were made in order,
\* each with the event of its line.
RECURSIVE AfterCalls(_, _, _, _, _, _)
AfterCalls(lines, calls, k, ui, h, cur) ==
  IF k = 0 THEN ui
  ELSE HandlerNamed(calls[k].fn, AfterCalls(lines, calls, k - 1, ui, h, cur), h, cur,
                    EventIn(lines[calls[k].line]))

\* C23: in a step that processes a chunk, a line invokes at most one callback;
\* a handler is invoked only for a record whose event parsed, and it is the
\* handler named by the kind of that event, one of the six kinds; the state
\* after the step is the state after exactly these handlers ran; a record
\* whose event is of any other kind invokes nothing, raises no onError, and
\* the request goes on reading unless the sentinel completed it.
C23_RoutedByKind ==
  [][ last'.op = "chunk" =>
        LET r == last'.r
            lines == last'.lines
            calls == last'.calls
            h == streams[r].h
        IN /\ \A k, l \in DOMAIN calls : calls[k].line = calls[l].line => k = l
           /\ \A k \in DOMAIN calls :
                calls[k].fn # "onComplete" =>
                  /\ ParseData(Trim(lines[calls[k].line])).ok
                  /\ calls[k].fn = EventIn(lines[calls[k].line]).type
                  /\ calls[k].fn \in HandledTypes
           /\ \A i \in DOMAIN lines :
                (/\ Trim(lines[i]) # <<>>
                 /\ Trim(lines[i])[1] = "data:"
                 /\ ~IsDoneMarker(Trim(lines[i]))
                 /\ ParseData(Trim(lines[i])).ok
                 /\ EventIn(lines[i]).type \in HandledTypes
                 /\ \A j \in 1..(i - 1) : ~IsDoneMarker(Trim(lines[j])))
                => \E k \in DOMAIN calls : calls[k].line = i
           /\ <<chats', sessionId', cartState', isLoading'>>
                = LET ui == AfterCalls(lines, calls, Len(calls), UI, h, currentStreamIdRef)
                  IN <<ui.chats, ui.sessionId, ui.cartState, ui.isLoading>>
           /\ \A k \in DOMAIN calls : ~UnknownKind(lines[calls[k].line])
           /\ streams'[r].onError = streams[r].onError
           /\ (/\ isStreamingRef
               /\ \A k \in DOMAIN calls : calls[k].fn # "onComplete")
              => streams'[r].pc = "read"
    ]_vars

\* C23 witness: the chunk with an event of kind done followed by a
\* conversation chunk was processed; only the conversation chunk invoked a
\* handler, its entry is in the transcript, and the request goes on reading.
C23_Witness ==
  /\ last.op = "chunk"
  /\ Len(last.lines) = 2
  /\ UnknownKind(last.lines[1])
  /\ last.calls = <<[line |-> 2, fn |-> "conversation_chunk"]>>
  /\ streams[last.r].pc = "read"
  /\ streams[last.r].onError = 0
  /\ OfType(Messages, "bot_conversation_chunk")
       = <<Msg("bot_conversation_chunk", <<"c">>, "st", last.r)>>

\* C24: a step that processes a chunk invokes its callbacks in the order of
\* the lines: of two calls the earlier one is for the earlier line; onComplete,
\* if called, is the last call, so the completion sweep works on the state
\* that all handlers before the sentinel left; and the state after the step is
\* the state reached by applying the handlers one after the other in that
\* order, each on the result of the one before.
C24_ArrivalOrder ==
  [][ last'.op = "chunk" =>
        LET r == last'.r
            lines == last'.lines
            calls == last'.calls
            after(k) == AfterCalls(lines, calls, k, UI, streams[r].h, currentStreamIdRef)
        IN /\ \A k, l \in DOMAIN calls : k < l => calls[k].line < calls[l].line
           /\ \A k \in DOMAIN calls : calls[k].fn = "onComplete" => k = Len(calls)
           /\ \A k \in DOMAIN calls :
                calls[k].fn = "onComplete"
                => after(k) = handleStreamComplete(after(k - 1), streams[r].h.activeChatId,
                                                   currentStreamIdRef)
           /\ chats' = after(Len(calls)).chats
    ]_vars

\* C24 witness: the current request processed the chunk conversation chunk,
\* thinking, sentinel, thinking: the calls were made in this order, the sweep
\* ran last, on the transcript that held the entries of both events, and
\* removed the thinking entry; the event after the sentinel was not applied.
C24_Witness ==
  /\ last.op = "chunk"
  /\ last.r = currentStreamIdRef
  /\ Len(last.lines) = 4
  /\ last.calls = <<[line |-> 1, fn |-> "conversation_chunk"], [line |-> 2, fn |-> "thinking"],
                    [line |-> 3, fn |-> "onComplete"]>>
  /\ Owned(Messages, "bot_conversation_chunk", last.r)
       = <<Msg("bot_conversation_chunk", <<"d">>, "st", last.r)>>
  /\ Owned(Messages, "bot_thinking", last.r) = <<>>
  /\ ~isLoading

\* An event that carries cart data: a raw_cart event, or a response with a
\* cart context that is not the suppressed session-initialized response.
CarriesCart(e) ==
  \/ e.type = "raw_cart"
  \/ /\ e.type = "response"
     /\ e.hasData /\ e.data.hasCart
     /\ ~Includes(e.content, "initialized a new shopping session")
     /\ ~Includes(e.content, "Session Ready")

\* The aggregates such an event carries.
CartOf(e) ==
  LET c == IF e.type = "raw_cart" THEN e.cart_summary ELSE e.data
  IN [itemCount |-> IF c.total_items = Undefined THEN 0 ELSE c.total_items,
      total |-> IF c.total_value = Undefined THEN 0 ELSE c.total_value]

\* C25: a step that processes a chunk leaves the cart summary state at the
\* aggregates of the last dispatched event that carries cart data, an empty
\* cart included, and leaves it as it was when no dispatched event carries
\* cart data.
C25_CartSummaryFollowsEvents ==
  [][ last'.op = "chunk" =>
        LET lines == last'.lines
            calls == last'.calls
            cs == {k \in DOMAIN calls :
                     calls[k].fn # "onComplete" /\ CarriesCart(EventIn(lines[calls[k].line]))}
        IN IF cs = {} THEN cartState' = cartState
           ELSE LET k == CHOOSE k \in cs : \A l \in cs : l <= k
                IN cartState' = CartOf(EventIn(lines[calls[k].line]))
    ]_vars

\* The entry kind the table maps a context type to.
TableKind(ct) ==
  CASE ct = "search_results" -> "bot_product_list"
    [] ct = "cart_view" -> "bot_cart_view"
    [] ct = "checkout_stage" -> "bot_checkout_stage"
    [] ct = "order_confirmation" -> "bot_order_confirmation"
    [] ct = "error_message" -> "bot_error"
    [] ct = "success_message" -> "bot_success"
    [] OTHER -> "no entry"

\* The text entry comes first and only when the response has text.
TextFirst(response, out) ==
  /\ response.content # <<>> =>
       out # <<>> /\ out[1] = Msg("bot", response.content, "", NoStream)
  /\ \A k \in DOMAIN out : out[k].type = "bot" => k = 1 /\ response.content # <<>>

\* C26 as stated: the entries a response expands to are its text first, when
\* there is text, and after it only entries of the kind the table maps its
\* context type to.
C26_OnlyMappedKind ==
  last.op = "expand" =>
    /\ TextFirst(wire, Messages)
    /\ \A k \in DOMAIN Messages :
         Messages[k].type # "bot" => Messages[k].type = TableKind(wire.context_type)

\* C26 amended: the entries a response expands to are its text first, when
\* there is text, and after it only entries of the kind the table maps its
\* context type to, except that an error entry is also appended, under any
\* context type, when the structured data reports success = false; no kind is
\* appended twice.
C26_MappedKindOrFailure ==
  last.op = "expand" =>
    /\ TextFirst(wire, Messages)
    /\ \A k \in DOMAIN Messages :
         Messages[k].type # "bot" =>
           \/ Messages[k].type = TableKind(wire.context_type)
           \/ /\ Messages[k].type = "bot_error"
              /\ wire.hasData
              /\ wire.data.success = "false"
    /\ \A k, l \in DOMAIN Messages : Messages[k].type = Messages[l].type => k = l
    /\ (wire.hasData /\ wire.data.success = "false") =>
         \E k \in DOMAIN Messages : Messages[k].type = "bot_error"

\* C26 witness: a search_results response with text, products and
\* success = false expanded to the text, the product list and an error entry.
C26_Witness ==
  /\ last.op = "expand"
  /\ wire.context_type = "search_results"
  /\ wire.data.success = "false"
  /\ [k \in DOMAIN Messages |-> Messages[k].type] = <<"bot", "bot_product_list", "bot_error">>

\* A response whose text matches the session-initialized phrasing.
Suppressed(e) ==
  /\ e.type = "response"
  /\ \/ Includes(e.content, "initialized a new shopping session")
     \/ Includes(e.content, "Session Ready")

Durable(msgs) == SelectSeq(msgs, LAMBDA m : ~IsTemporary(m))

\* C27: in a step that processes a chunk, the handler call for a response
\* with the session-initialized phrasing appends no entry (every entry after
\* the call was there before it, and there are no more of them), leaves the
\* durable entries of the transcript as they were, in their order, and leaves
\* the cart summary state as it was, also when the response carries cart data.
C27_SessionInitSuppressed ==
  [][ last'.op = "chunk" =>
        LET r == last'.r
            lines == last'.lines
            calls == last'.calls
            after(k) == AfterCalls(lines, calls, k, UI, streams[r].h, currentStreamIdRef)
        IN /\ <<chats', cartState'>> = <<after(Len(calls)).chats, after(Len(calls)).cartState>>
           /\ \A k \in DOMAIN calls :
                (calls[k].fn = "response" /\ Suppressed(EventIn(lines[calls[k].line]))) =>
                  LET before == after(k - 1).chats[1].messages
                      behind == after(k).chats[1].messages
                  IN /\ Len(behind) <= Len(before)
                     /\ \A i \in DOMAIN behind : \E j \in DOMAIN before : before[j] = behind[i]
                     /\ Durable(behind) = Durable(before)
                     /\ after(k).cartState = after(k - 1).cartState
    ]_vars

\* C27 witness: after a raw_cart event set the cart summary and appended a
\* cart view, a session-initialized response that carries other cart data was
\* processed: the cart view is still the only entry and the summary is the
\* one of the raw_cart event.
C27_Witness ==
  /\ last.op = "chunk"
  /\ Len(last.lines) = 1
  /\ last.calls = <<[line |-> 1, fn |-> "response"]>>
  /\ Suppressed(EventIn(last.lines[1]))
  /\ EventIn(last.lines[1]).data.hasCart
  /\ cartState = [itemCount |-> 1, total |-> 5]
  /\ [k \in DOMAIN Messages |-> Messages[k].type] = <<"user", "bot_cart_view">>

\* C28: the initialization message is sent at most once, and the step that
\* sends it opens the first request ever: no request was opened before it, so
\* no user request is open that it could cancel, and it cancels none.
C28_InitRequestFirst ==
  [][ /\ Cardinality({r \in Req : streams'[r].kind = "init"}) <= 1
      /\ \A r \in Req :
           (~Sent(r) /\ streams'[r].kind = "init") =>
             /\ \A q \in Req : ~Sent(q)
             /\ \A q \in Req : streams'[q].aborted = streams[q].aborted
    ]_vars

\* C29: the step that sends a request puts into its body the session id the
\* interface holds at that moment, which is the one most recently received in
\* an event (SetSessionId is the only writer of sessionId) and null when no
\* event has carried one.
C29_SessionIdReused ==
  [][ \A r \in Req :
        (~Sent(r) /\ Sent(r)') => streams'[r].body = sessionId
    ]_vars

\* C30: when requests were sent and none is open any more (each has ended by
\* transport close, sentinel, failure or cancellation), the loading flag is
\* false: there is no state without an active stream in which isLoading is
\* true and only a new sendMessage could change that.
C30_LoadingCleared ==
  ((\E r \in Req : Sent(r)) /\ (\A r \in Req : ~Open(r))) => ~isLoading

\* Whether the transcript a request closed over when it was sent was empty.
SentOnEmpty(r) ==
  \A i \in DOMAIN streams[r].h.chats :
    streams[r].h.chats[i].id = streams[r].h.activeChatId => ~streams[r].h.chats[i].hasMessages

\* C31: in the step in which a request fails at transport level, an error
\* entry is appended exactly when the transcript holds entries at that moment,
\* whatever it held when the request was sent; in particular a user request
\* sent on an empty transcript, whose user entry is in the transcript when it
\* fails, gets exactly one error entry, placed last, behind the user entry.
C31_ErrorDecisionIsCurrent ==
  [][ (last'.op = "error") =>
        LET r == last'.r
            old == OfType(Messages, "bot_error")
            new == OfType(chats'[1].messages, "bot_error")
            msgs == chats'[1].messages
        IN /\ (Len(new) = Len(old) + 1) <=> (Messages # <<>>)
           /\ Len(new) \in {Len(old), Len(old) + 1}
           /\ (streams[r].kind = "user" /\ SentOnEmpty(r)) =>
                /\ OfType(Messages, "user") # <<>>
                /\ Len(new) = Len(old) + 1
                /\ msgs[Len(msgs)].type = "bot_error"
                /\ \E k \in 1..(Len(msgs) - 1) : msgs[k].type = "user"
    ]_vars

\* The steps in which a request runs handlers or terminal callbacks.
CallbackOps == {"chunk", "done", "error", "abortExit", "fetchOk"}

\* The message list of the chat with the id, <<>> when it is not listed.
MessagesOf(cs, id) ==
  IF \E i \in DOMAIN cs : cs[i].id = id
  THEN cs[CHOOSE i \in DOMAIN cs : cs[i].id = id].messages
  ELSE <<>>

\* C32: a step in which a request runs its event handlers or a terminal
\* callback leaves the chat list, the active chat and the message list of
\* every chat other than the one that was active when the request was sent
\* as they were, also when the user has created, switched to or deleted a
\* chat since.
C32_OnlySendersChat ==
  [][ last'.op \in CallbackOps =>
        LET r == last'.r
        IN /\ Len(chats') = Len(chats)
           /\ activeChatId' = activeChatId
           /\ \A i \in DOMAIN chats :
                /\ chats'[i].id = chats[i].id
                /\ chats[i].id # streams[r].h.activeChatId => chats'[i] = chats[i]
    ]_vars

\* C32 witness: a request sent from chat c1 processed a response after the
\* user had created another chat, which is the active one: the bot entry is
\* in the transcript of c1 and the transcript of the active chat is empty.
C32_Witness ==
  /\ last.op = "chunk"
  /\ last.calls = <<[line |-> 1, fn |-> "response"]>>
  /\ streams[last.r].h.activeChatId = "c1"
  /\ activeChatId # "c1"
  /\ Len(chats) = 2
  /\ OfType(MessagesOf(chats, "c1"), "bot") # <<>>
  /\ MessagesOf(chats, activeChatId) = <<>>

\* A response whose text carries the payment phrasing.
PaymentText(e) ==
  e.type = "response" /\ Includes(e.content, "Your order has been initialized")

\* The amount a text names: the number behind the first rupee sign that has
\* one, "0" when there is none.
RECURSIVE AmountNamed(_)
AmountNamed(content) ==
  IF Len(content) < 2 THEN "0"
  ELSE IF content[1] = "RUPEE" /\ content[2] \in {"120", "75"} THEN content[2]
  ELSE AmountNamed(Tail(content))

\* What C33 says of one handler call: two entries were appended, the text and
\* behind it the payment entry with the amount and INR; the entries before
\* them are entries that were there, the durable ones all and in order; the
\* cart summary is as it was.
PaymentEffect(e, before, behind) ==
  LET msgs == behind.chats[1].messages
      old == before.chats[1].messages
      n == Len(msgs)
  IN /\ n >= 2
     /\ n <= Len(old) + 2
     /\ msgs[n - 1] = Msg("bot", e.content, "", NoStream)
     /\ msgs[n] = Msg("bot_payment_initiated", <<AmountNamed(e.content)>>, "INR", NoStream)
     /\ Durable(SubSeq(msgs, 1, n - 2)) = Durable(old)
     /\ behind.cartState = before.cartState

\* C33 as stated: every handler call for a response with the payment phrasing
\* has the payment effect.
C33_PaymentTwoEntries ==
  [][ last'.op = "chunk" =>
        LET r == last'.r
            lines == last'.lines
            calls == last'.calls
            after(k) == AfterCalls(lines, calls, k, UI, streams[r].h, currentStreamIdRef)
        IN /\ <<chats', cartState'>> = <<after(Len(calls)).chats, after(Len(calls)).cartState>>
           /\ \A k \in DOMAIN calls :
                (calls[k].fn = "response" /\ PaymentText(EventIn(lines[calls[k].line])))
                => PaymentEffect(EventIn(lines[calls[k].line]), after(k - 1), after(k))
    ]_vars

\* C33 amended: every handler call for a response with the payment phrasing
\* that does not also carry the session-initialized phrasing has the payment
\* effect, whatever context type and cart data the response carries.
C33_PaymentUnlessSuppressed ==
  [][ last'.op = "chunk" =>
        LET r == last'.r
            lines == last'.lines
            calls == last'.calls
            after(k) == AfterCalls(lines, calls, k, UI, streams[r].h, currentStreamIdRef)
        IN /\ <<chats', cartState'>> = <<after(Len(calls)).chats, after(Len(calls)).cartState>>
           /\ \A k \in DOMAIN calls :
                (/\ calls[k].fn = "response"
                 /\ PaymentText(EventIn(lines[calls[k].line]))
                 /\ ~Suppressed(EventIn(lines[calls[k].line])))
                => PaymentEffect(EventIn(lines[calls[k].line]), after(k - 1), after(k))
    ]_vars

\* C33 witness: after a raw_cart event, a payment response of context type
\* cart_view that names two amounts and carries other cart data was
\* processed: the transcript ends with the text and a payment entry over the
\* first amount, no second cart view was appended, and the cart summary is
\* the one of the raw_cart event.
C33_Witness ==
  /\ last.op = "chunk"
  /\ last.calls = <<[line |-> 1, fn |-> "response"]>>
  /\ EventIn(last.lines[1]).context_type = "cart_view"
  /\ [k \in DOMAIN Messages |-> Messages[k].type]
       = <<"user", "bot_cart_view", "bot", "bot_payment_initiated">>
  /\ Messages[4].content = <<"75">>
  /\ Messages[4].extra = "INR"
  /\ cartState = [itemCount |-> 1, total |-> 5]

\* The ids of a chat list, in list order.
IdsOf(cs) == [i \in DOMAIN cs |-> cs[i].id]

====
